---------------------------- MODULE Spec2Model ----------------------------
(***************************************************************************)
(* A model of src/app.py: the Flask application that receives Slack event  *)
(* deliveries on POST /events, looks the sender's Tiliter API key up in    *)
(* Redis, sends every image attachment to the Tiliter receipt processor    *)
(* and posts the result into the thread, together with the slash-command   *)
(* routes /set-apikey, /delete-apikey and /get-apikey.                     *)
(*                                                                         *)
(* Several deliveries are handled at once (threads of one server, or       *)
(* several server instances behind one endpoint).  A handler is cut into   *)
(* steps at its Redis calls, the only state handlers share; the outbound   *)
(* HTTP calls of one attachment (download, inference, chat.postMessage)    *)
(* touch nothing shared and form one step.  An outbound call answers with  *)
(* a status, raises (requests.exceptions.RequestException) or, no call     *)
(* being given a timeout, never returns.  Redis itself is taken to answer. *)
(* Payloads are the well-formed ones the platform sends: a                 *)
(* url_verification payload carries its challenge, a file its url_private, *)
(* a message its channel and ts.                                           *)
(***************************************************************************)
EXTENDS Naturals, Sequences, FiniteSets

\* ------------------------------------------------------------ bounds
\* The longest list of attachments of one event.
MaxFiles == 2

\* ------------------------------------------------------------ values
\* A missing JSON key, a missing Redis key, Python's None.
Absent == "absent"
None == <<"None">>

\* The request handlers that may be running /events at the same time.
Deliveries == {"d1", "d2"}
Users == {"U1", "U2"}
Tokens == {"tokA", "tokB"}
\* A MIME type, cut at its slash.
Mimetypes == {<<"image", "png">>, <<"application", "pdf">>}

\* The texts of a /set-apikey command, as sequences of characters.
Texts == {<< >>, <<" ">>, <<"a">>, <<" ", "a", " ">>, <<"b">>}

RECURSIVE lstrip(_)
lstrip(s) == IF s # << >> /\ Head(s) = " " THEN lstrip(Tail(s)) ELSE s

RECURSIVE rstrip(_)
rstrip(s) ==
    IF s # << >> /\ s[Len(s)] = " " THEN rstrip(SubSeq(s, 1, Len(s) - 1)) ELSE s

\* str.strip()
strip(s) == rstrip(lstrip(s))

\* The keys /set-apikey stores: the stripped texts that are not empty.
Keys == {strip(text) : text \in Texts} \ {<< >>}

FileLists == UNION {[1..n -> Mimetypes] : n \in 0..MaxFiles}

\* data.get("event", {}) of a payload without an event.
EmptyEvent ==
    [user |-> Absent, type |-> Absent, bot_id |-> Absent, has_files |-> FALSE,
     files |-> << >>]

\* The inner events: has_files is 'files' in event.
Events ==
    [user : Users \cup {Absent}, type : {"message", "file_shared"},
     bot_id : {Absent, "B1"}, has_files : {TRUE}, files : FileLists]
        \cup [user : Users \cup {Absent}, type : {"message", "file_shared"},
              bot_id : {Absent, "B1"}, has_files : {FALSE}, files : {<< >>}]

\* No payload, no response yet.
NoPayload == [type |-> "none", challenge |-> Absent, event |-> EmptyEvent]
NoResponse == [status |-> 0, body |-> "none"]

\* request.json of a delivery.
Payloads ==
    [type : {"url_verification"}, challenge : Tokens, event : {EmptyEvent}]
        \cup [type : {"event_callback"}, challenge : {Absent}, event : Events]

\* The Redis keys the application uses: f"key:{user_id}", f"warned:{user_id}".
RedisKeys == {"key", "warned"} \X Users

\* The value of a field of a JSON object: missing, an empty string, a string.
FieldValues == {Absent, "", "v"}

\* An element of "items".
Items == [name : FieldValues, price : FieldValues]

\* The "result" of a Tiliter response: a JSON object with any of its fields
\* (has_items is 'items' in result, a list of objects), or, dict being FALSE,
\* a value without .get: null, a list, a string.
NotADict ==
    [dict |-> FALSE, merchant |-> Absent, total |-> Absent, date |-> Absent,
     address |-> Absent, currency |-> Absent, has_items |-> FALSE,
     items |-> << >>]
Results ==
    [dict : {TRUE}, merchant : FieldValues, total : FieldValues,
     date : FieldValues, address : FieldValues, currency : FieldValues,
     has_items : {TRUE}, items : {<< >>} \cup {<<item>> : item \in Items}]
        \cup [dict : {TRUE}, merchant : FieldValues, total : FieldValues,
              date : FieldValues, address : FieldValues,
              currency : FieldValues, has_items : {FALSE}, items : {<< >>}]
        \cup {NotADict}

\* The result.get(...) of an object without the field: {} of line 134.
EmptyResult ==
    [dict |-> TRUE, merchant |-> Absent, total |-> Absent, date |-> Absent,
     address |-> Absent, currency |-> Absent, has_items |-> FALSE,
     items |-> << >>]

\* A body without "result": the bytes of an image, text, no body at all, a
\* JSON array, a JSON object.
Body(kind) == [kind |-> kind, has_result |-> FALSE, result |-> EmptyResult]
NotJson == Body("text")
NoBody == Body("none")

\* The body of a Tiliter response: text that is not JSON, JSON that is not an
\* object, or an object, with or without "result".
Bodies ==
    {Body(kind) : kind \in {"text", "array", "object"}}
        \cup [kind : {"object"}, has_result : {TRUE}, result : Results]

\* A receipt of one item, without its address.
SomeReceipt ==
    [kind |-> "object", has_result |-> TRUE,
     result |-> [dict |-> TRUE, merchant |-> "v", total |-> "v", date |-> "v",
                 address |-> Absent, currency |-> "v", has_items |-> TRUE,
                 items |-> <<[name |-> "v", price |-> "v"]>>]]

\* What an outbound HTTP call comes to.
Answered(status_code, body) ==
    [how |-> "response", status_code |-> status_code, body |-> body]
Raised == [how |-> "raised", status_code |-> 0, body |-> NoBody]
Hung == [how |-> "hung", status_code |-> 0, body |-> NoBody]

ImageResponses ==
    {Answered(200, Body("bytes")), Answered(404, NoBody), Raised, Hung}
TiliterResponses ==
    {Answered(200, SomeReceipt), Answered(200, NotJson), Answered(500, NotJson),
     Raised, Hung}
SlackResponses ==
    {Answered(200, Body("object")), Answered(500, NotJson), Raised, Hung}

\* dict.get(key, default) and Python's  value or default  on strings.
get(value, default) == IF value = Absent THEN default ELSE value
or_else(value, default) == IF value \in {Absent, ""} THEN default ELSE value

\* The reply texts.
WarningText == <<":warning: You haven't set your Tiliter API key yet.">>
DownloadFailedText(status_code) ==
    <<":x: Failed to download image. Status:", status_code>>
TiliterErrorText(status_code, text) ==
    <<":x: Tiliter API error", status_code, text>>
ParseFailedText(e) == <<":x: Could not parse Tiliter response:", e>>

\* A line of item_lines: name, price, currency.
item_line(item, currency) ==
    <<get(item.name, "Unnamed"), or_else(item.price, "N/A"),
      or_else(currency, "")>>

\* The lines of the receipt, in the order of the text.
ReceiptText(result) ==
    LET merchant == get(result.merchant, "Unknown")
        total == get(result.total, "N/A")
        date == get(result.date, "N/A")
        address == get(result.address, "")
        currency == get(result.currency, "")
        items == IF result.has_items THEN result.items ELSE << >>
    IN  <<"Receipt Details",
          [merchant |-> or_else(merchant, "Unknown"),
           date |-> or_else(date, "N/A"),
           total |-> or_else(total, "N/A"),
           currency |-> or_else(currency, ""),
           address |-> or_else(address, "N/A"),
           item_lines |->
               IF items # << >>
               THEN [k \in 1..Len(items) |-> item_line(items[k], currency)]
               ELSE <<(<<"_No items detected._", "", "">>)>>]>>

NoFault == [call |-> "none", how |-> "none"]
\* What a handler did outside itself: its Redis reads and writes, its
\* downloads (one per call of handle_image), the X-API-Key of its last call
\* of the inference API (None before), its chat.postMessage calls with the
\* registration prompt and with a result of handle_image, and the prompts
\* chat.postMessage took.
NoLog ==
    [reads |-> 0, writes |-> 0, downloads |-> 0, x_api_key |-> None,
     warnings |-> 0, posts |-> 0, accepted |-> 0]

\* No call made on its own yet.
NoProbe == [called |-> "none", args |-> << >>, returned |-> << >>]

VARIABLES
    redis,      \* the Upstash store: RedisKeys -> a value or None
    deleting,   \* users whose /delete-apikey is between its two deletes
    pc,         \* where each handler of /events is
    data,       \* its payload
    api_key,    \* its local api_key
    i,          \* its position in event['files']
    response,   \* the HTTP response it gave, NoResponse before
    fault,      \* the outbound call that raised in it or never returned
    log,        \* what it did outside itself so far: store and HTTP calls
    probe       \* a call of handle_image or /get-apikey on its own: its
                \* arguments and what it returned

vars == <<redis, deleting, pc, data, api_key, i, response, fault, log, probe>>

\* ------------------------------------------------------------ the store
redis_set(store, key, value) == [store EXCEPT ![key] = value]
redis_delete(store, key) == [store EXCEPT ![key] = None]

\* ------------------------------------------------------------ helpers
make_response(body, status) == [status |-> status, body |-> body]

\* What Flask answers when the view function raises.
InternalServerError == make_response("Internal Server Error", 500)

\* file.get('mimetype', '').startswith('image/')
is_image(file) == file[1] = "image"

files_of(event) == IF event.has_files THEN event.files ELSE << >>

\* The first image at or after position from, Len + 1 when there is none.
RECURSIVE next_image(_, _)
next_image(files, from) ==
    IF from > Len(files) THEN Len(files) + 1
    ELSE IF is_image(files[from]) THEN from
    ELSE next_image(files, from + 1)

\* The test taking every 2xx status for a success.
status_not_2xx(status_code) == status_code \notin 200..299

\* status_code != 200
status_not_200(status_code) == status_code # 200

\* handle_image with the key in the place of response.text in its error text.
handle_image_echoing_key(key, image_response, tiliter_response) ==
    IF image_response.how # "response"
    THEN [how |-> image_response.how, call |-> "download", text |-> Absent,
          x_api_key |-> None]
    ELSE IF status_not_200(image_response.status_code)
    THEN [how |-> "returned", call |-> "none",
          text |-> DownloadFailedText(image_response.status_code),
          x_api_key |-> None]
    ELSE IF tiliter_response.how # "response"
    THEN [how |-> tiliter_response.how, call |-> "inference", text |-> Absent,
          x_api_key |-> key]
    ELSE IF status_not_200(tiliter_response.status_code)
    THEN [how |-> "returned", call |-> "none",
          text |-> TiliterErrorText(tiliter_response.status_code, key),
          x_api_key |-> key]
    ELSE IF tiliter_response.body.kind = "text"
    THEN [how |-> "returned", call |-> "none",
          text |-> ParseFailedText("JSONDecodeError"), x_api_key |-> key]
    ELSE IF \/ tiliter_response.body.kind # "object"
            \/ /\ tiliter_response.body.has_result
               /\ ~tiliter_response.body.result.dict
    THEN [how |-> "returned", call |-> "none",
          text |-> ParseFailedText("AttributeError"), x_api_key |-> key]
    ELSE [how |-> "returned", call |-> "none",
          text |-> ReceiptText(IF tiliter_response.body.has_result
                               THEN tiliter_response.body.result
                               ELSE EmptyResult),
          x_api_key |-> key]

\* handle_image: the text it returns, or the call that ended it, with the
\* X-API-Key of its inference call (None when it made none).
handle_image(key, image_response, tiliter_response) ==
    IF image_response.how # "response"
    THEN [how |-> image_response.how, call |-> "download", text |-> Absent,
          x_api_key |-> None]
    ELSE IF status_not_200(image_response.status_code)
    THEN [how |-> "returned", call |-> "none",
          text |-> DownloadFailedText(image_response.status_code),
          x_api_key |-> None]
    ELSE IF tiliter_response.how # "response"
    THEN [how |-> tiliter_response.how, call |-> "inference", text |-> Absent,
          x_api_key |-> key]
    ELSE IF status_not_200(tiliter_response.status_code)
    THEN [how |-> "returned", call |-> "none",
          text |-> TiliterErrorText(tiliter_response.status_code,
                                    tiliter_response.body),
          x_api_key |-> key]
    ELSE IF tiliter_response.body.kind = "text"
    THEN [how |-> "returned", call |-> "none",
          text |-> ParseFailedText("JSONDecodeError"), x_api_key |-> key]
    ELSE IF \/ tiliter_response.body.kind # "object"
            \/ /\ tiliter_response.body.has_result
               /\ ~tiliter_response.body.result.dict
    THEN [how |-> "returned", call |-> "none",
          text |-> ParseFailedText("AttributeError"), x_api_key |-> key]
    ELSE [how |-> "returned", call |-> "none",
          text |-> ReceiptText(IF tiliter_response.body.has_result
                               THEN tiliter_response.body.result
                               ELSE EmptyResult),
          x_api_key |-> key]

\* post_to_slack: returns whatever the status, raises or hangs with the call.
post_to_slack(slack_response) ==
    IF slack_response.how = "response" THEN "returned" ELSE slack_response.how

\* Whether chat.postMessage took the message.
Accepted(slack_response) ==
    IF slack_response.how = "response" /\ slack_response.status_code = 200
    THEN 1 ELSE 0

\* ------------------------------------------------------------ Init
\* No handler has started.
InitHandlers ==
    /\ deleting = {}
    /\ pc = [d \in Deliveries |-> "idle"]
    /\ data = [d \in Deliveries |-> NoPayload]
    /\ api_key = [d \in Deliveries |-> None]
    /\ i = [d \in Deliveries |-> 0]
    /\ response = [d \in Deliveries |-> NoResponse]
    /\ fault = [d \in Deliveries |-> NoFault]
    /\ log = [d \in Deliveries |-> NoLog]

\* An empty store.
Init ==
    /\ redis = [k \in RedisKeys |-> None]
    /\ InitHandlers
    /\ probe = NoProbe

\* ------------------------------------------------------------ /events
\* classify with the url_verification test left out.
classify_without_verification(payload) ==
    IF payload.event.user = Absent
    THEN make_response("No user ID", 200)
    ELSE IF payload.event.type # "message"
    THEN make_response("Skipping non-message event", 200)
    ELSE IF payload.event.bot_id # Absent
    THEN make_response("Ignore bot message", 200)
    ELSE NoResponse

\* classify with the test of the event type left out.
classify_without_type(payload) ==
    IF payload.type = "url_verification"
    THEN make_response(payload.challenge, 200)
    ELSE IF payload.event.user = Absent
    THEN make_response("No user ID", 200)
    ELSE IF payload.event.bot_id # Absent
    THEN make_response("Ignore bot message", 200)
    ELSE NoResponse

\* classify with the bot_id test left out.
classify_without_bot_id(payload) ==
    IF payload.type = "url_verification"
    THEN make_response(payload.challenge, 200)
    ELSE IF payload.event.user = Absent
    THEN make_response("No user ID", 200)
    ELSE IF payload.event.type # "message"
    THEN make_response("Skipping non-message event", 200)
    ELSE NoResponse

\* The response of the checks before the first Redis call, NoResponse when
\* the handler goes on to it.
classify(payload) ==
    IF payload.type = "url_verification"
    THEN make_response(payload.challenge, 200)
    ELSE IF payload.event.user = Absent
    THEN make_response("No user ID", 200)
    ELSE IF payload.event.type # "message"
    THEN make_response("Skipping non-message event", 200)
    ELSE IF payload.event.bot_id # Absent
    THEN make_response("Ignore bot message", 200)
    ELSE NoResponse

\* A delivery arrives and runs to its first Redis call or its early return.
slack_events(d, payload) ==
    /\ pc[d] = "idle"
    /\ data' = [data EXCEPT ![d] = payload]
    /\ response' = [response EXCEPT ![d] = classify(payload)]
    /\ pc' = [pc EXCEPT ![d] = IF classify(payload) = NoResponse THEN "get_key" ELSE "done"]
    /\ UNCHANGED <<redis, deleting, api_key, i, fault, log, probe>>

\* get_key going on to the files whatever it read: the return of the
\* missing-key branch left out.
get_key_falls_through(d) ==
    /\ pc[d] = "get_key"
    /\ api_key' = [api_key EXCEPT ![d] = redis[<<"key", data[d].event.user>>]]
    /\ log' = [log EXCEPT ![d].reads = @ + 1]
    /\ pc' = [pc EXCEPT ![d] = "files"]
    /\ i' = [i EXCEPT ![d] = 1]
    /\ UNCHANGED <<redis, deleting, data, response, fault, probe>>

\* api_key = redis.get(f"key:{user_id}")
get_key(d) ==
    /\ pc[d] = "get_key"
    /\ api_key' = [api_key EXCEPT ![d] = redis[<<"key", data[d].event.user>>]]
    /\ log' = [log EXCEPT ![d].reads = @ + 1]
    /\ IF redis[<<"key", data[d].event.user>>] = None
       THEN pc' = [pc EXCEPT ![d] = "get_warn"] /\ i' = i
       ELSE pc' = [pc EXCEPT ![d] = "files"] /\ i' = [i EXCEPT ![d] = 1]
    /\ UNCHANGED <<redis, deleting, data, response, fault, probe>>

\* if not redis.get(warn_key)
get_warn(d) ==
    /\ pc[d] = "get_warn"
    /\ log' = [log EXCEPT ![d].reads = @ + 1]
    /\ IF redis[<<"warned", data[d].event.user>>] = None
       THEN pc' = [pc EXCEPT ![d] = "set_warn"] /\ response' = response
       ELSE /\ pc' = [pc EXCEPT ![d] = "done"]
            /\ response' = [response EXCEPT ![d] = make_response("No API key", 200)]
    /\ UNCHANGED <<redis, deleting, data, api_key, i, fault, probe>>

\* set_warn writing under key:{user_id} instead of warned:{user_id}.
set_warn_as_key(d) ==
    /\ pc[d] = "set_warn"
    /\ redis' = redis_set(redis, <<"key", data[d].event.user>>, <<"1">>)
    /\ log' = [log EXCEPT ![d].writes = @ + 1]
    /\ pc' = [pc EXCEPT ![d] = "post_warn"]
    /\ UNCHANGED <<deleting, data, api_key, i, response, fault, probe>>

\* redis.set(warn_key, "1", ex=3600)
set_warn(d) ==
    /\ pc[d] = "set_warn"
    /\ redis' = redis_set(redis, <<"warned", data[d].event.user>>, <<"1">>)
    /\ log' = [log EXCEPT ![d].writes = @ + 1]
    /\ pc' = [pc EXCEPT ![d] = "post_warn"]
    /\ UNCHANGED <<deleting, data, api_key, i, response, fault, probe>>

\* post_to_slack(channel, ts, the registration prompt), then return.
post_warn(d, slack_response) ==
    /\ pc[d] = "post_warn"
    /\ log' = [log EXCEPT ![d].warnings = @ + 1,
                          ![d].accepted = @ + Accepted(slack_response)]
    /\ IF post_to_slack(slack_response) = "returned"
       THEN /\ pc' = [pc EXCEPT ![d] = "done"]
            /\ response' = [response EXCEPT ![d] = make_response("No API key", 200)]
            /\ fault' = fault
       ELSE IF post_to_slack(slack_response) = "raised"
       THEN /\ pc' = [pc EXCEPT ![d] = "crashed"]
            /\ response' = [response EXCEPT ![d] = InternalServerError]
            /\ fault' = [fault EXCEPT ![d] = [call |-> "post_warn", how |-> "raised"]]
       ELSE /\ pc' = [pc EXCEPT ![d] = "hung"]
            /\ response' = response
            /\ fault' = [fault EXCEPT ![d] = [call |-> "post_warn", how |-> "hung"]]
    /\ UNCHANGED <<redis, deleting, data, api_key, i, probe>>

\* process_file reading key:{user_id} again for every image, in the place of
\* the local api_key.
process_file_rereading_key(d, image_response, tiliter_response, slack_response) ==
    LET files == files_of(data[d].event)
        j == next_image(files, i[d])
        r == handle_image(redis[<<"key", data[d].event.user>>], image_response,
                          tiliter_response)
        posted == r.how = "returned"
        p == IF posted THEN post_to_slack(slack_response) ELSE r.how
        call == IF posted THEN "post" ELSE r.call
    IN  /\ pc[d] = "files"
        /\ j <= Len(files)
        /\ log' = [log EXCEPT ![d].downloads = @ + 1,
                              ![d].x_api_key =
                                  IF r.x_api_key # None THEN r.x_api_key ELSE @,
                              ![d].posts = @ + (IF posted THEN 1 ELSE 0)]
        /\ i' = [i EXCEPT ![d] = j + 1]
        /\ IF p = "returned"
           THEN UNCHANGED <<pc, response, fault>>
           ELSE IF p = "raised"
           THEN /\ pc' = [pc EXCEPT ![d] = "crashed"]
                /\ response' = [response EXCEPT ![d] = InternalServerError]
                /\ fault' = [fault EXCEPT ![d] = [call |-> call, how |-> "raised"]]
           ELSE /\ pc' = [pc EXCEPT ![d] = "hung"]
                /\ response' = response
                /\ fault' = [fault EXCEPT ![d] = [call |-> call, how |-> "hung"]]
        /\ UNCHANGED <<redis, deleting, data, api_key, probe>>

\* One turn of the loop over event['files'] for the next image: handle_image,
\* then post_to_slack with its result.
process_file(d, image_response, tiliter_response, slack_response) ==
    LET files == files_of(data[d].event)
        j == next_image(files, i[d])
        r == handle_image(api_key[d], image_response, tiliter_response)
        posted == r.how = "returned"
        p == IF posted THEN post_to_slack(slack_response) ELSE r.how
        call == IF posted THEN "post" ELSE r.call
    IN  /\ pc[d] = "files"
        /\ j <= Len(files)
        /\ log' = [log EXCEPT ![d].downloads = @ + 1,
                              ![d].x_api_key =
                                  IF r.x_api_key # None THEN r.x_api_key ELSE @,
                              ![d].posts = @ + (IF posted THEN 1 ELSE 0)]
        /\ i' = [i EXCEPT ![d] = j + 1]
        /\ IF p = "returned"
           THEN UNCHANGED <<pc, response, fault>>
           ELSE IF p = "raised"
           THEN /\ pc' = [pc EXCEPT ![d] = "crashed"]
                /\ response' = [response EXCEPT ![d] = InternalServerError]
                /\ fault' = [fault EXCEPT ![d] = [call |-> call, how |-> "raised"]]
           ELSE /\ pc' = [pc EXCEPT ![d] = "hung"]
                /\ response' = response
                /\ fault' = [fault EXCEPT ![d] = [call |-> call, how |-> "hung"]]
        /\ UNCHANGED <<redis, deleting, data, api_key, probe>>

\* The loop is over (or there is no 'files'): return make_response("OK", 200).
return_ok(d) ==
    /\ pc[d] = "files"
    /\ next_image(files_of(data[d].event), i[d]) > Len(files_of(data[d].event))
    /\ pc' = [pc EXCEPT ![d] = "done"]
    /\ response' = [response EXCEPT ![d] = make_response("OK", 200)]
    /\ UNCHANGED <<redis, deleting, data, api_key, i, fault, log, probe>>

\* ------------------------------------------------------------ commands
\* POST /set-apikey
set_api_key(user_id, text) ==
    /\ IF user_id = Absent \/ strip(text) = << >>
       THEN redis' = redis
       ELSE redis' = redis_set(redis, <<"key", user_id>>, strip(text))
    /\ UNCHANGED <<deleting, pc, data, api_key, i, response, fault, log, probe>>

\* POST /delete-apikey, to its first delete: redis.delete(f"key:{user_id}")
delete_api_key(user_id) ==
    /\ user_id \notin deleting
    /\ IF user_id = Absent
       THEN UNCHANGED <<redis, deleting>>
       ELSE /\ redis' = redis_delete(redis, <<"key", user_id>>)
            /\ deleting' = deleting \cup {user_id}
    /\ UNCHANGED <<pc, data, api_key, i, response, fault, log, probe>>

\* The second delete left out: /delete-apikey ends with the marker in place.
delete_warned_keeps_marker(user_id) ==
    /\ user_id \in deleting
    /\ deleting' = deleting \ {user_id}
    /\ UNCHANGED <<redis, pc, data, api_key, i, response, fault, log, probe>>

\* POST /delete-apikey, its second delete: redis.delete(f"warned:{user_id}")
delete_warned(user_id) ==
    /\ user_id \in deleting
    /\ redis' = redis_delete(redis, <<"warned", user_id>>)
    /\ deleting' = deleting \ {user_id}
    /\ UNCHANGED <<pc, data, api_key, i, response, fault, log, probe>>

\* The body of the response of POST /get-apikey on a store: every response of
\* the route has status 200.
NoUserText == <<"Could not identify your user ID.">>
NotFoundText == <<"No API key found for your user.">>
KeyText(key) == <<"Your current API key is:", key>>
get_api_key_response(store, user_id) ==
    IF user_id = Absent THEN NoUserText
    ELSE IF store[<<"key", user_id>>] \in {None, << >>} THEN NotFoundText
    ELSE KeyText(store[<<"key", user_id>>])

\* POST /get-apikey
get_api_key(user_id) ==
    /\ probe' = [called |-> "get_api_key", args |-> <<user_id>>,
                 returned |-> <<get_api_key_response(redis, user_id)>>]
    /\ UNCHANGED <<redis, deleting, pc, data, api_key, i, response, fault, log>>

\* The expiry taking key:{user_id} along, as if the key were set with ex=3600.
warn_expires_with_key(user_id) ==
    /\ redis[<<"warned", user_id>>] # None
    /\ redis' = redis_delete(redis_delete(redis, <<"warned", user_id>>),
                             <<"key", user_id>>)
    /\ UNCHANGED <<deleting, pc, data, api_key, i, response, fault, log, probe>>

\* The store drops warned:{user_id} when its 3600 s are over.
warn_expires(user_id) ==
    /\ redis[<<"warned", user_id>>] # None
    /\ redis' = redis_delete(redis, <<"warned", user_id>>)
    /\ UNCHANGED <<deleting, pc, data, api_key, i, response, fault, log, probe>>

\* ------------------------------------------------------------ Next
\* The specification runs two handlers of /events at once, with the commands
\* and the expiry of the marker in between, for one sender and one key text:
\* a handler reads and writes the entries of its event's user alone.
Sender == "U1"
SenderKey == <<"a">>
\* Its command texts: one that strips to nothing, one that strips to the key.
SenderTexts == {t \in Texts : t # strip(t) /\ strip(t) \in {<< >>, SenderKey}}

\* The deliveries: every payload of the sender or of nobody; an event the
\* handler returns on before its first Redis call comes without files or with
\* one image.
Arrivals ==
    {p \in Payloads :
        /\ p.event.user \in {Sender, Absent}
        /\ classify(p) # NoResponse =>
               p.event.files \in {<< >>, <<(<<"image", "png">>)>>}}

\* The answers to the calls of one turn of the loop: a call that is not made
\* gets no answer.
NotCalled == [how |-> "not called", status_code |-> 0, body |-> NoBody]
TiliterAnswers(image_response) ==
    IF handle_image(SenderKey, image_response, NotCalled).x_api_key = None
    THEN {NotCalled} ELSE TiliterResponses
SlackAnswers(image_response, tiliter_response) ==
    IF handle_image(SenderKey, image_response, tiliter_response).how = "returned"
    THEN SlackResponses ELSE {NotCalled}

Next ==
    \/ \E d \in Deliveries, payload \in Arrivals : slack_events(d, payload)
    \/ \E d \in Deliveries : get_key(d)
    \/ \E d \in Deliveries : get_warn(d)
    \/ \E d \in Deliveries : set_warn(d)
    \/ \E d \in Deliveries, s \in SlackResponses : post_warn(d, s)
    \/ \E d \in Deliveries, g \in ImageResponses :
          \E t \in TiliterAnswers(g) :
             \E s \in SlackAnswers(g, t) : process_file(d, g, t, s)
    \/ \E d \in Deliveries : return_ok(d)
    \/ \E u \in {Sender, Absent}, text \in SenderTexts : set_api_key(u, text)
    \/ \E u \in {Sender, Absent} : delete_api_key(u)
    \/ delete_warned(Sender)
    \/ warn_expires(Sender)

Spec == Init /\ [][Next]_vars

\* The throttle window of a user without a credential: the marker does not
\* expire and no command runs; the deliveries come in any interleaving.
InitWindow ==
    /\ redis \in {r \in [RedisKeys -> {None, SenderKey}] :
                     \A k \in RedisKeys : k # <<"key", Sender>> => r[k] = None}
    /\ InitHandlers
    /\ probe = NoProbe

NextWindow ==
    \/ \E d \in Deliveries, payload \in Arrivals : slack_events(d, payload)
    \/ \E d \in Deliveries : get_key(d)
    \/ \E d \in Deliveries : get_warn(d)
    \/ \E d \in Deliveries : set_warn(d)
    \/ \E d \in Deliveries, s \in SlackResponses : post_warn(d, s)
    \/ \E d \in Deliveries, g \in ImageResponses :
          \E t \in TiliterAnswers(g) :
             \E s \in SlackAnswers(g, t) : process_file(d, g, t, s)
    \/ \E d \in Deliveries : return_ok(d)

SpecWindow == InitWindow /\ [][NextWindow]_vars

\* One delivery at a time: a delivery arrives when no handler is running.
NoneRunning == \A d \in Deliveries : pc[d] \in {"idle", "done", "crashed", "hung"}

NextSerial ==
    \/ \E d \in Deliveries, payload \in Arrivals :
          NoneRunning /\ slack_events(d, payload)
    \/ \E d \in Deliveries : get_key(d)
    \/ \E d \in Deliveries : get_warn(d)
    \/ \E d \in Deliveries : set_warn(d)
    \/ \E d \in Deliveries, s \in SlackResponses : post_warn(d, s)
    \/ \E d \in Deliveries, g \in ImageResponses :
          \E t \in TiliterAnswers(g) :
             \E s \in SlackAnswers(g, t) : process_file(d, g, t, s)
    \/ \E d \in Deliveries : return_ok(d)
    \/ \E u \in {Sender, Absent}, text \in SenderTexts : set_api_key(u, text)
    \/ \E u \in {Sender, Absent} : delete_api_key(u)
    \/ delete_warned(Sender)
    \/ warn_expires(Sender)

SpecSerial == Init /\ [][NextSerial]_vars

\* Within the 3600 s of a marker: one delivery at a time and the commands,
\* no marker expiring.  The deliveries are those without an image: the
\* prompt does not depend on the files.
PlainArrivals ==
    {p \in Arrivals :
        next_image(files_of(p.event), 1) > Len(files_of(p.event))}

NextWithinTtl ==
    \/ \E d \in Deliveries, payload \in PlainArrivals :
          NoneRunning /\ slack_events(d, payload)
    \/ \E d \in Deliveries : get_key(d)
    \/ \E d \in Deliveries : get_warn(d)
    \/ \E d \in Deliveries : set_warn(d)
    \/ \E d \in Deliveries, s \in SlackResponses : post_warn(d, s)
    \/ \E d \in Deliveries : return_ok(d)
    \/ \E u \in {Sender, Absent}, text \in SenderTexts : set_api_key(u, text)
    \/ \E u \in {Sender, Absent} : delete_api_key(u)
    \/ delete_warned(Sender)

SpecWithinTtl == Init /\ [][NextWithinTtl]_vars

\* Every user, every command text and every payload, with one handler of
\* /events: the store under the commands of both users.
Handler == "d1"

AnyTiliterAnswers(image_response) ==
    IF handle_image(None, image_response, NotCalled).call = "inference"
    THEN TiliterResponses ELSE {NotCalled}

NextUsers ==
    \/ \E payload \in Payloads : slack_events(Handler, payload)
    \/ get_key(Handler)
    \/ get_warn(Handler)
    \/ set_warn(Handler)
    \/ \E s \in SlackResponses : post_warn(Handler, s)
    \/ \E g \in ImageResponses :
          \E t \in AnyTiliterAnswers(g) :
             \E s \in SlackAnswers(g, t) : process_file(Handler, g, t, s)
    \/ return_ok(Handler)
    \/ \E u \in Users \cup {Absent}, text \in Texts : set_api_key(u, text)
    \/ \E u \in Users \cup {Absent} : delete_api_key(u)
    \/ \E u \in Users : delete_warned(u)
    \/ \E u \in Users : warn_expires(u)

SpecUsers == Init /\ [][NextUsers]_vars

\* The commands on their own, from any store the application leaves behind:
\* a key is a stripped non-empty text, a marker is "1".
InitCommands ==
    /\ redis \in {r \in [RedisKeys -> Keys \cup {None, <<"1">>}] :
                     \A u \in Users :
                        /\ r[<<"key", u>>] \in Keys \cup {None}
                        /\ r[<<"warned", u>>] \in {None, <<"1">>}}
    /\ InitHandlers
    /\ probe = NoProbe

NextCommands ==
    \/ \E u \in Users \cup {Absent}, text \in Texts : set_api_key(u, text)
    \/ \E u \in Users \cup {Absent} : delete_api_key(u)
    \/ \E u \in Users : delete_warned(u)
    \/ \E u \in Users \cup {Absent} : get_api_key(u)
    \/ \E u \in Users : warn_expires(u)

SpecCommands == InitCommands /\ [][NextCommands]_vars

\* handle_image and /get-apikey on their own, each called in two runs that
\* differ in the key of the sender alone: the runs get the same answers from
\* Slack and from Tiliter.
\* The statuses of a download: 200, other 2xx, 4xx.
PureImageResponses ==
    ImageResponses \cup {Answered(204, NoBody), Answered(206, Body("bytes"))}

\* The answers of the inference API: every body with 200, other statuses.
PureTiliterResponses ==
    {Answered(200, body) : body \in Bodies}
        \cup {Answered(status_code, NotJson) : status_code \in {201, 401, 500}}
        \cup {Raised, Hung}

\* The arguments: the keys of the two runs, the answers to the two calls.
InitPure ==
    /\ redis = [k \in RedisKeys |-> None]
    /\ InitHandlers
    /\ \E k1, k2 \in Keys, g \in PureImageResponses :
          \E t \in (IF handle_image(k1, g, NotCalled).call = "inference"
                    THEN PureTiliterResponses ELSE {NotCalled}) :
             probe = [called |-> "none", args |-> <<k1, k2, g, t>>,
                      returned |-> << >>]

\* handle_image(image_url, api_key) in each run.
handle_image_twice ==
    /\ probe.called = "none"
    /\ probe' = [probe EXCEPT
                    !.called = "handle_image",
                    !.returned =
                        <<handle_image(probe.args[1], probe.args[3], probe.args[4]),
                          handle_image(probe.args[2], probe.args[3], probe.args[4])>>]
    /\ UNCHANGED <<redis, deleting, pc, data, api_key, i, response, fault, log>>

\* POST /get-apikey of the sender in each run, the key of the run registered.
get_api_key_twice ==
    /\ probe.called = "none"
    /\ probe' = [probe EXCEPT
                    !.called = "get_api_key",
                    !.returned =
                        <<get_api_key_response(
                              redis_set(redis, <<"key", Sender>>, probe.args[1]),
                              Sender),
                          get_api_key_response(
                              redis_set(redis, <<"key", Sender>>, probe.args[2]),
                              Sender)>>]
    /\ UNCHANGED <<redis, deleting, pc, data, api_key, i, response, fault, log>>

NextPure ==
    \/ handle_image_twice
    \/ get_api_key_twice

SpecPure == InitPure /\ [][NextPure]_vars

\* ------------------------------------------------------------ claims
\* The images among the files of an event.
images(event) ==
    Cardinality({k \in 1..Len(files_of(event)) : is_image(files_of(event)[k])})

\* Two handlers with deliveries of one logical event: a redelivery carries
\* the payload of the first delivery.
SameEvent(d, e) ==
    d # e /\ data[d].type = "event_callback" /\ data[d] = data[e]

\* C1: the deliveries of one logical event of a user with a registered
\* credential call handle_image once per image attachment and post at most
\* one reply per image attachment, all deliveries together (counted when the
\* handlers have returned).
C1_OneProcessingPerEvent ==
    \A d, e \in Deliveries :
        /\ SameEvent(d, e) /\ api_key[d] # None /\ api_key[e] # None
        /\ pc[d] = "done" /\ pc[e] = "done"
        =>
            /\ log[d].downloads + log[e].downloads <= images(data[d].event)
            /\ log[d].posts + log[e].posts <= images(data[d].event)

\* A count of the log, over the handlers of S: "warnings" for the
\* registration prompts they posted, "accepted" for those chat.postMessage
\* took.
RECURSIVE sum_log(_, _)
sum_log(S, count) ==
    IF S = {} THEN 0
    ELSE LET d == CHOOSE x \in S : TRUE
         IN  log[d][count] + sum_log(S \ {d}, count)

\* The handlers that found no credential for the sender.
Unregistered ==
    {d \in Deliveries : log[d].reads > 0 /\ api_key[d] = None}

\* C2: within the throttle window of a user without a credential the
\* deliveries get one registration prompt in total, in every interleaving:
\* no more than one prompt reaches the thread, and one is posted once every
\* handler is through.
C2_OneWarningPerWindow ==
    redis[<<"key", Sender>>] = None =>
        /\ sum_log(Deliveries, "accepted") <= 1
        /\ (NoneRunning /\ Unregistered # {}) =>
               sum_log(Deliveries, "warnings") >= 1

\* C3: a url_verification delivery is answered 200 with its challenge, reads
\* and writes nothing in the store and posts nothing.
C3_ChallengeAnswered ==
    \A d \in Deliveries :
        data[d].type = "url_verification" =>
            /\ pc[d] = "done"
            /\ response[d] = [status |-> 200, body |-> data[d].challenge]
            /\ log[d] = NoLog

\* A challenge answered while the store holds a key and a marker and the
\* other handler is in the middle of its own delivery.
C3_Witness ==
    \E d, e \in Deliveries :
        /\ data[d].type = "url_verification" /\ pc[d] = "done"
        /\ redis[<<"key", Sender>>] # None
        /\ redis[<<"warned", Sender>>] # None
        /\ pc[e] = "post_warn"

\* C4: a delivery whose event carries a bot_id posts nothing: no registration
\* prompt, no result.
C4_BotNeverAnswered ==
    \A d \in Deliveries :
        data[d].event.bot_id # Absent =>
            log[d].warnings = 0 /\ log[d].posts = 0

\* A message with a bot_id, a user and an image, answered while the user has
\* no key and no marker: without the bot_id it would be prompted.
C4_Witness ==
    \E d \in Deliveries :
        /\ data[d].event.bot_id # Absent
        /\ data[d].event.user = Sender
        /\ data[d].event.type = "message"
        /\ images(data[d].event) > 0
        /\ pc[d] = "done"
        /\ redis[<<"key", Sender>>] = None
        /\ redis[<<"warned", Sender>>] = None

\* C5: whatever the outbound calls come to, the response of /events is 2xx.
C5_AlwaysSuccess ==
    \A d \in Deliveries :
        response[d] # NoResponse =>
            response[d].status >= 200 /\ response[d].status <= 299

\* C6: an inference call that times out ends neither the handler nor the
\* reply: the handler is through, with one reply posted for its one image.
C6_TimeoutReplied ==
    \A d \in Deliveries :
        fault[d].call = "inference" /\ images(data[d].event) = 1 =>
            pc[d] = "done" /\ log[d].posts = 1

\* C7: the response is given before the image pipeline makes its calls: a
\* handler that has called handle_image has responded.
C7_AcknowledgedFirst ==
    \A d \in Deliveries :
        log[d].downloads > 0 => response[d] # NoResponse

\* C8: of the deliveries of one logical event, handled one after the other,
\* at most one gets its registration prompt into the thread, whatever runs
\* between them.
C8_DuplicateNotWarnedAgain ==
    \A d, e \in Deliveries :
        SameEvent(d, e) /\ pc[d] = "done" /\ pc[e] = "done" =>
            log[d].accepted + log[e].accepted <= 1

\* C9: a message without an image attachment gets no registration prompt and
\* sets no marker.
C9_NoImageNoWarning ==
    \A d \in Deliveries :
        data[d].type = "event_callback" /\ images(data[d].event) = 0 =>
            log[d].warnings = 0 /\ log[d].writes = 0

\* C10: a handler whose lookup found no credential downloads nothing, calls
\* no inference and posts no result; it posts at most one registration prompt.
C10_MissingShortCircuits ==
    \A d \in Unregistered :
        /\ log[d].downloads = 0
        /\ log[d].x_api_key = None
        /\ log[d].posts = 0
        /\ log[d].warnings <= 1

\* A handler that found no credential for a message with an image and is
\* through, prompt posted, while the key has been registered since.
C10_Witness ==
    \E d \in Unregistered :
        /\ images(data[d].event) > 0
        /\ pc[d] = "done"
        /\ log[d].warnings = 1
        /\ redis[<<"key", Sender>>] # None

\* C11: whenever the marker warned:{user_id} of a user is set, a registration
\* prompt has been delivered to the user, also when chat.postMessage fails or
\* raises (taken when no handler is in the middle of its delivery).
C11_MarkerMeansPrompted ==
    redis[<<"warned", Sender>>] # None /\ NoneRunning =>
        sum_log(Deliveries, "accepted") >= 1

\* C12: a handler that found the credential of the sender posts as many
\* replies as its event has image attachments, none for an event without
\* files (counted when the handler has ended).
C12_OneReplyPerImage ==
    \A d \in Deliveries :
        api_key[d] # None /\ pc[d] \in {"done", "crashed", "hung"} =>
            log[d].posts = images(data[d].event)

\* C13: a call that raises or never returns for one image attachment does not
\* keep the handler from the other image attachments: a handler that such a
\* call has ended has called handle_image for every image of its event.
C13_FailureSparesSiblings ==
    \A d \in Deliveries :
        fault[d].call \in {"download", "inference", "post"} =>
            log[d].downloads = images(data[d].event)

\* C14: the commands keep one record per user.  A /set-apikey of u with a
\* text that strips to a non-empty s makes /get-apikey of u answer s; a
\* /delete-apikey of u makes it answer not-found; and the answer of
\* /get-apikey of u changes in no other step: not by a command of another
\* user, not by a delivery, not by the expiry of a marker.
C14_KeyValueContract ==
    [][\A u \in Users :
          /\ \A text \in Texts :
                set_api_key(u, text) /\ strip(text) # << >> =>
                    get_api_key_response(redis', u) = KeyText(strip(text))
          /\ delete_api_key(u) =>
                get_api_key_response(redis', u) = NotFoundText
          /\ get_api_key_response(redis', u) # get_api_key_response(redis, u) =>
                \/ \E text \in Texts : set_api_key(u, text)
                \/ delete_api_key(u)]_vars

\* /get-apikey of U1 answered "a"; since then U1 has registered "b" over it,
\* while U2 has registered and deleted nothing that shows in U1's record.
C14_Witness ==
    /\ probe.called = "get_api_key"
    /\ probe.args = <<"U1">>
    /\ probe.returned = <<KeyText(<<"a">>)>>
    /\ redis[<<"key", "U1">>] = <<"b">>
    /\ redis[<<"key", "U2">>] = <<"a">>
    /\ redis[<<"warned", "U2">>] # None

\* C15: no step of a handler of /events, whatever the delivery and however
\* its calls end, changes a record key:{user_id}; a record changes in a step
\* of /set-apikey or /delete-apikey of its user alone.
C15_EventsNeverWriteKeys ==
    [][/\ <<pc, data, api_key, i, response, fault, log>>'
              # <<pc, data, api_key, i, response, fault, log>> =>
                  \A u \in Users : redis'[<<"key", u>>] = redis[<<"key", u>>]
       /\ \A u \in Users :
             redis'[<<"key", u>>] # redis[<<"key", u>>] =>
                 \/ \E text \in Texts : set_api_key(u, text)
                 \/ delete_api_key(u)]_vars

\* A handler that has written to the store (the marker of its sender) and
\* ended, both users holding the keys they have registered since.
C15_Witness ==
    /\ pc[Handler] \in {"done", "crashed", "hung"}
    /\ log[Handler].writes = 1
    /\ redis[<<"key", "U1">>] = <<"a">>
    /\ redis[<<"key", "U2">>] = <<"b">>

\* The two runs of a call made on its own, and what each returned.
Run1 == probe.returned[1]
Run2 == probe.returned[2]

\* C16: two runs that differ in the registered key of the sender alone and
\* get the same answers to the download and to the inference call end the
\* same way with the same reply text, whatever the answers; /get-apikey
\* answers the two runs differently exactly when their keys differ.
C16_KeyNeverEchoed ==
    /\ probe.called = "handle_image" =>
           /\ Run1.how = Run2.how
           /\ Run1.call = Run2.call
           /\ Run1.text = Run2.text
    /\ probe.called = "get_api_key" =>
           (Run1 = Run2 <=> probe.args[1] = probe.args[2])

\* Two runs with different keys whose inference call was answered 401 with a
\* body: the one text of handle_image that carries a part of a response.
C16_Witness ==
    /\ probe.called = "handle_image"
    /\ probe.args[1] # probe.args[2]
    /\ probe.args[4].how = "response"
    /\ probe.args[4].status_code = 401
    /\ Run1.x_api_key = probe.args[1]
    /\ Run2.x_api_key = probe.args[2]
    /\ Run1.how = "returned"

\* The arguments of a call of handle_image made on its own: the answers to
\* its download and to its inference call.
Download == probe.args[3]
Inference == probe.args[4]
\* The result the receipt text is made of.
Parsed == IF Inference.body.has_result THEN Inference.body.result ELSE EmptyResult

\* The text of a receipt has a placeholder for every absent field but, when
\* with_currency is FALSE, the currency.
Placeholders(text, result, with_currency) ==
    /\ text[1] = "Receipt Details"
    /\ result.merchant = Absent => text[2].merchant = "Unknown"
    /\ result.date = Absent => text[2].date = "N/A"
    /\ result.total = Absent => text[2].total = "N/A"
    /\ result.address = Absent => text[2].address = "N/A"
    /\ ~result.has_items => text[2].item_lines[1][1] = "_No items detected._"
    /\ with_currency /\ result.currency = Absent => text[2].currency # ""
    /\ \A field \in {"merchant", "date", "total", "address"} :
          text[2][field] # ""
    /\ text[2].item_lines # << >>

C18_DeleteResetsThrottle ==
    [][\A u \in Users :
          /\ u \in deleting /\ u \notin deleting' =>
                redis'[<<"warned", u>>] = None
          /\ \A d \in Deliveries :
                /\ pc[d] = "get_warn" /\ pc'[d] # "get_warn"
                /\ data[d].event.user = u /\ redis[<<"warned", u>>] = None
                => pc'[d] = "set_warn"
          /\ redis'[<<"key", u>>] \notin {None, redis[<<"key", u>>]} =>
                redis'[<<"warned", u>>] = redis[<<"warned", u>>]]_vars

\* Two deliveries of the sender, one after the other and no marker expiring,
\* each with its prompt taken by chat.postMessage: a /delete-apikey has run
\* between them.
C18_Witness ==
    /\ \A d \in Deliveries :
          /\ pc[d] = "done" /\ data[d].event.user = Sender
          /\ log[d].accepted = 1
    /\ redis[<<"warned", Sender>>] # None
    /\ redis[<<"key", Sender>>] = None

\* C19: a handler that found a key has read key:{user_id} once, every
\* inference call it has made carried the key it read, whatever the store
\* holds by then, and when it returns it has called handle_image for every
\* image of its event.
C19_KeyReadOnce ==
    \A d \in Deliveries :
        /\ log[d].x_api_key \in {None, api_key[d]}
        /\ api_key[d] # None =>
              /\ log[d].reads = 1
              /\ pc[d] = "done" => log[d].downloads = images(data[d].event)

\* A handler that has returned from an event of two images, its inference
\* calls made with the key "a" it read, while the store holds "b" for the
\* sender by now.
C19_Witness ==
    \E d \in Deliveries :
        /\ pc[d] = "done"
        /\ images(data[d].event) = 2
        /\ log[d].posts = 2
        /\ api_key[d] = <<"a">>
        /\ log[d].x_api_key = <<"a">>
        /\ redis[<<"key", data[d].event.user>>] = <<"b">>

\* The deliveries slack_events returns on before its first Redis call, the
\* challenge apart.
Ignorable(payload) ==
    /\ payload.type = "event_callback"
    /\ \/ payload.event.user = Absent
       \/ payload.event.type # "message"
       \/ payload.event.bot_id # Absent

\* C20: a delivery whose event has no user, a type other than "message" or a
\* bot_id is answered 200 in the step it arrives in, which leaves the store as
\* it is; its handler reads and writes nothing in the store and makes no
\* outbound call.
C20_IgnorableTouchesNothing ==
    /\ [](\A d \in Deliveries :
             Ignorable(data[d]) =>
                 /\ pc[d] = "done"
                 /\ response[d].status = 200
                 /\ log[d] = NoLog /\ fault[d] = NoFault)
    /\ [][\A d \in Deliveries :
             data'[d] # data[d] /\ Ignorable(data'[d]) => redis' = redis]_vars

\* A file_shared event of U1 with an image, answered while U1 has a key and
\* no marker: as a message it would be processed.
C20_Witness ==
    \E d \in Deliveries :
        /\ Ignorable(data[d])
        /\ data[d].event.user = "U1"
        /\ data[d].event.type = "file_shared"
        /\ data[d].event.bot_id = Absent
        /\ images(data[d].event) > 0
        /\ redis[<<"key", "U1">>] # None
        /\ redis[<<"warned", "U1">>] = None

=============================================================================
